---------------------------- MODULE Spec2Model ----------------------------
(***************************************************************************)
(* Stock correlation and impact analysis engine (correlation_engine.py).   *)
(*                                                                         *)
(* Numbers.  A Pearson coefficient as pandas computes it is carried in     *)
(* units of 1/10000 (Unit); a coefficient as the engine reports it, after  *)
(* round(x, 3), in units of 1/1000.  The float "not a number" is NaN; the  *)
(* float operators below give NaN the IEEE behaviour Python gives it       *)
(* (every ordered comparison with NaN is false, NaN != x is true).         *)
(*                                                                         *)
(* Averages are exact rationals.  Time: one unit is one second of          *)
(* future.result(timeout=10).                                              *)
(***************************************************************************)
EXTENDS Integers, Sequences, FiniteSets, TLC

VARIABLES
    engine,               \* self: the two sector catalogs of the engine
    presented,            \* what a presentation function returned
    pc,                   \* where analyze_stock_impact is
    primary_ticker,       \* argument of analyze_stock_impact
    sector,               \* argument of analyze_stock_impact
    market,               \* what yfinance and pandas give, per ticker
    latency,              \* latency[i]: run time of the i-th submitted task
    all_related,          \* the flattened (stock, category) list
    futures,              \* futures[i]: state of the i-th submitted task
    remaining,            \* remaining[i]: run time the i-th task still needs
    cur,                  \* iteration of the collect loop
    waited,               \* time the current future.result call has waited
    correlation_results,  \* the entries collected so far
    result,               \* what analyze_stock_impact returned
    now,                  \* history: the time
    started,              \* history: started[i], when the i-th task began to run
    wait_began,           \* history: when future.result was called on the i-th
    collected,            \* history: indexes whose future.result returned or raised
    timed_out,            \* history: indexes whose future.result raised TimeoutError
    out_of_order          \* history: a task completed before an earlier one

vars == <<engine, presented, pc, primary_ticker, sector, market, latency, all_related, futures,
          remaining, cur, waited, correlation_results, result, now,
          started, wait_began, collected, timed_out, out_of_order>>

---------------------------------------------------------------------------
(* Program constants *)

MaxWorkers == 5
Timeout == 10
MinPoints == 30
PeerLimit == 8

(* Model bounds *)

PatLen == 2
MaxSlow == 2

---------------------------------------------------------------------------
(* Python values *)

PyNone == "<None>"
NaN == 0 - 99999

IsStr(x) == x # PyNone

Min(a, b) == IF a <= b THEN a ELSE b

\* s[a:b] of Python, 0-based, clipped to the list
Slice(s, a, b) ==
    LET hi == Min(b, Len(s))
    IN  IF a >= hi THEN <<>> ELSE [i \in 1..(hi - a) |-> s[a + i]]

Reverse(s) == [i \in 1..Len(s) |-> s[Len(s) + 1 - i]]

RECURSIVE SeqSum(_)
SeqSum(s) == IF s = <<>> THEN 0 ELSE s[1] + SeqSum(Tail(s))

---------------------------------------------------------------------------
(* Floats with NaN *)

IsNaN(x) == x = NaN
FAbs(x) == IF IsNaN(x) THEN NaN ELSE IF x < 0 THEN 0 - x ELSE x
FGe(x, y) == ~IsNaN(x) /\ ~IsNaN(y) /\ x >= y
FGt(x, y) == ~IsNaN(x) /\ ~IsNaN(y) /\ x > y
FLt(x, y) == ~IsNaN(x) /\ ~IsNaN(y) /\ x < y
FNe(x, y) == IsNaN(x) \/ IsNaN(y) \/ x # y
FMul(x, k) == IF IsNaN(x) THEN NaN ELSE x * k
FAdd(x, k) == IF IsNaN(x) THEN NaN ELSE x + k

\* round(q / d) to the nearest integer, ties to even, for d > 0
RoundDiv(q, d) ==
    LET fl == IF q >= 0 THEN q \div d ELSE 0 - ((0 - q + d - 1) \div d)
        r2 == 2 * (q - fl * d)
    IN  IF r2 < d THEN fl
        ELSE IF r2 > d THEN fl + 1
        ELSE IF fl % 2 = 0 THEN fl ELSE fl + 1

\* round(correlation, 3): from units of 1/10000 to units of 1/1000
Round3(x) == IF IsNaN(x) THEN NaN ELSE RoundDiv(x, 10)

---------------------------------------------------------------------------
(* StockCorrelationEngine.__init__ : the two sector catalogs *)

sector_mapping ==
    [s \in {"Technology", "Financial Services", "Healthcare",
            "Consumer Cyclical", "Energy", "Industrials", "Basic Materials",
            "Real Estate", "Utilities", "Consumer Defensive"} |->
       CASE s = "Technology" ->
              <<"AAPL", "MSFT", "GOOGL", "META", "NVDA", "CRM", "ORCL",
                "ADBE", "INTC", "AMD">>
         [] s = "Financial Services" ->
              <<"JPM", "BAC", "WFC", "GS", "MS", "C", "USB", "PNC", "TFC",
                "COF">>
         [] s = "Healthcare" ->
              <<"JNJ", "PFE", "UNH", "ABBV", "MRK", "TMO", "ABT", "DHR",
                "BMY", "AMGN">>
         [] s = "Consumer Cyclical" ->
              <<"AMZN", "TSLA", "HD", "MCD", "DIS", "NKE", "SBUX", "LOW",
                "TJX", "BKNG">>
         [] s = "Energy" ->
              <<"XOM", "CVX", "COP", "EOG", "SLB", "PSX", "VLO", "MPC",
                "OXY", "HAL">>
         [] s = "Industrials" ->
              <<"BA", "CAT", "GE", "HON", "UNP", "LMT", "MMM", "FDX", "UPS",
                "RTX">>
         [] s = "Basic Materials" ->
              <<"LIN", "APD", "ECL", "DD", "DOW", "FCX", "NEM", "VMC", "MLM",
                "PPG">>
         [] s = "Real Estate" ->
              <<"AMT", "PLD", "CCI", "EQIX", "PSA", "SPG", "O", "WELL",
                "DLR", "EXR">>
         [] s = "Utilities" ->
              <<"NEE", "DUK", "SO", "AEP", "EXC", "XEL", "SRE", "D", "PEG",
                "PCG">>
         [] s = "Consumer Defensive" ->
              <<"PG", "KO", "PEP", "WMT", "COST", "CL", "KMB", "GIS", "K",
                "CPB">>]

indian_sectors ==
    [s \in {"Technology", "Financial Services", "Energy",
            "Consumer Cyclical", "Healthcare", "Industrials",
            "Consumer Defensive"} |->
       CASE s = "Technology" ->
              <<"TCS.NS", "INFY.NS", "WIPRO.NS", "HCLTECH.NS", "TECHM.NS",
                "LTI.NS", "MINDTREE.NS">>
         [] s = "Financial Services" ->
              <<"HDFCBANK.NS", "ICICIBANK.NS", "SBIN.NS", "AXISBANK.NS",
                "KOTAKBANK.NS", "INDUSINDBK.NS">>
         [] s = "Energy" ->
              <<"RELIANCE.NS", "ONGC.NS", "IOC.NS", "BPCL.NS",
                "HINDPETRO.NS", "GAIL.NS">>
         [] s = "Consumer Cyclical" ->
              <<"MARUTI.NS", "BAJAJ-AUTO.NS", "M&M.NS", "EICHERMOT.NS",
                "HEROMOTOCO.NS">>
         [] s = "Healthcare" ->
              <<"SUNPHARMA.NS", "DRREDDY.NS", "CIPLA.NS", "LUPIN.NS",
                "BIOCON.NS", "CADILAHC.NS">>
         [] s = "Industrials" ->
              <<"LT.NS", "ULTRACEMCO.NS", "ADANIENT.NS", "ADANIPORTS.NS",
                "TATASTEEL.NS">>
         [] s = "Consumer Defensive" ->
              <<"HINDUUNILV.NS", "ITC.NS", "NESTLEIND.NS", "GODREJCP.NS",
                "DABUR.NS">>]

\* the Technology list in place of [] as the default
DictGetTechnology(d, key) ==
    IF key \in DOMAIN d THEN d[key] ELSE d["Technology"]

\* dict.get(key, [])
DictGet(d, key) == IF key \in DOMAIN d THEN d[key] ELSE <<>>

Range(s) == {s[i] : i \in 1..Len(s)}

\* only ".NS" is looked for
endswith_ns_only(ticker, suffix) ==
    /\ suffix = ".NS"
    /\ \/ \E s \in DOMAIN indian_sectors : ticker \in Range(indian_sectors[s])
       \/ ticker = "ZOMATO.NS"

\* str.endswith, over the tickers of the model: every ticker of the Indian
\* catalog ends with ".NS", and so does "ZOMATO.NS", which no catalog
\* lists; "TCS.BO" is the one ticker ending with ".BO".
endswith(ticker, suffix) ==
    CASE suffix = ".NS" ->
           \/ \E s \in DOMAIN indian_sectors :
                 ticker \in Range(indian_sectors[s])
           \/ ticker = "ZOMATO.NS"
      [] suffix = ".BO" -> ticker = "TCS.BO"
      [] OTHER -> FALSE

---------------------------------------------------------------------------
(* find_sector_peers, get_related_stocks *)

\* ticker.endswith on a value that is no str raises AttributeError
find_sector_peers_raises(ticker) == ~IsStr(ticker)

\* self.sector_mapping and self.indian_sectors as __init__ leaves them
Catalogs == [sector_mapping |-> sector_mapping,
             indian_sectors |-> indian_sectors]

\* sector_stocks.remove(ticker) in place of the list comprehension
find_sector_peers_catalogs_remove(catalogs, ticker, sec) ==
    LET which == IF endswith(ticker, ".NS") \/ endswith(ticker, ".BO")
                 THEN "indian_sectors" ELSE "sector_mapping"
    IN  IF sec \in DOMAIN catalogs[which]
        THEN [catalogs EXCEPT ![which][sec] =
                 SelectSeq(@, LAMBDA stock : stock # ticker)]
        ELSE catalogs

\* lines 113-119: the catalog list is only read; line 118 builds a new
\* list and the slices of lines 119-138 are new lists
find_sector_peers_catalogs(catalogs, ticker, sec) == catalogs

\* without the filter of line 118
find_sector_peers_unfiltered(ticker, sec) ==
    LET sector_stocks ==
            IF endswith(ticker, ".NS") \/ endswith(ticker, ".BO")
            THEN DictGet(engine.indian_sectors, sec)
            ELSE DictGet(engine.sector_mapping, sec)
    IN  Slice(sector_stocks, 0, PeerLimit)

find_sector_peers(ticker, sec) ==
    LET sector_stocks ==
            IF endswith(ticker, ".NS") \/ endswith(ticker, ".BO")
            THEN DictGet(engine.indian_sectors, sec)
            ELSE DictGet(engine.sector_mapping, sec)
        peers == SelectSeq(sector_stocks, LAMBDA stock : stock # ticker)
    IN  Slice(peers, 0, PeerLimit)

\* industry_peers taken from the start of the list
get_related_stocks_same_subset(ticker, sec) ==
    LET sector_peers == find_sector_peers(ticker, sec)
    IN  [sector_peers   |-> Slice(sector_peers, 0, 5),
         industry_peers |-> Slice(sector_peers, 0, 4),
         competitors    |-> Slice(sector_peers, 0, 4)]

\* sector_peers without the cut to 5
get_related_stocks_all_eight(ticker, sec) ==
    LET sector_peers == find_sector_peers(ticker, sec)
    IN  [sector_peers   |-> sector_peers,
         industry_peers |-> IF Len(sector_peers) > 2
                            THEN Slice(sector_peers, 2, 6)
                            ELSE sector_peers,
         competitors    |-> Slice(sector_peers, 0, 4)]

get_related_stocks(ticker, sec) ==
    LET sector_peers == find_sector_peers(ticker, sec)
    IN  [sector_peers   |-> Slice(sector_peers, 0, 5),
         industry_peers |-> IF Len(sector_peers) > 2
                            THEN Slice(sector_peers, 2, 6)
                            ELSE sector_peers,
         competitors    |-> Slice(sector_peers, 0, 4)]

\* iteration order of the relationships dict (insertion order)
Categories == <<"sector_peers", "industry_peers", "competitors">>

\* `stock == entry` for a str and a (stock, category) tuple of all_related:
\* a tuple never equals a str
StrEqTuple(stock, entry) == FALSE

\* `stock not in all_related`
NotIn(stock, list) == ~\E i \in 1..Len(list) : StrEqTuple(stock, list[i])

RECURSIVE FlattenStocks(_, _, _)
FlattenStocks(acc, stocks, category) ==
    IF stocks = <<>> THEN acc
    ELSE FlattenStocks(
           IF NotIn(stocks[1], acc)
           THEN Append(acc, <<stocks[1], category>>) ELSE acc,
           Tail(stocks), category)

RECURSIVE FlattenFrom(_, _, _)
FlattenFrom(acc, related, k) ==
    IF k > Len(Categories) THEN acc
    ELSE FlattenFrom(FlattenStocks(acc, related[Categories[k]], Categories[k]),
                     related, k + 1)

Flatten(related) == FlattenFrom(<<>>, related, 1)

---------------------------------------------------------------------------
(* Exceptions *)

\* `except Exception` catches every exception class the model raises:
\* AttributeError (line 112), TimeoutError (line 167), KeyError (lines
\* 69-70), ConnectionError (lines 48-49)
PyExceptions == {"AttributeError", "TimeoutError", "KeyError",
                 "ConnectionError"}

\* `except ValueError` in place of `except Exception`
CaughtByExceptValueError(e) == e = "ValueError"

CaughtByExcept(e) == e \in PyExceptions

\* the outcome of a call that raised e
Raised(e) == [exception |-> e]

IsRaised(r) == "exception" \in DOMAIN r

---------------------------------------------------------------------------
(* get_stock_price_data, calculate_correlation *)

\* market[t].fetch is what yf.Ticker(t).history() does: "ok" (a frame with
\* a Close column), "empty" (an empty frame), "raise" (an exception) or
\* "malformed" (a non-empty frame without a Close column).  market[t].joined
\* is the number of rows of the date-aligned frame of t and the primary
\* ticker after dropna(); market[t].pearson is returns1.corr(returns2) on
\* that frame, in units of 1/10000, NaN when a return series has no variance.

\* without the test of line 50: the empty frame is returned
get_stock_price_data_unchecked(ticker) ==
    IF market[ticker].fetch = "raise" THEN PyNone
    ELSE IF market[ticker].fetch = "empty" THEN "ok"
    ELSE market[ticker].fetch

\* None, or the frame ("raised" when the exception of history() is not
\* caught at line 53)
get_stock_price_data(ticker) ==
    IF market[ticker].fetch = "raise"
    THEN (IF CaughtByExcept("ConnectionError") THEN PyNone ELSE "raised")
    ELSE IF market[ticker].fetch = "empty" THEN PyNone
    ELSE market[ticker].fetch

\* `>` in place of `>=`
StrengthOpen(abs_corr) ==
    IF FGt(abs_corr, 8000) THEN "Very Strong"
    ELSE IF FGt(abs_corr, 6000) THEN "Strong"
    ELSE IF FGt(abs_corr, 4000) THEN "Moderate"
    ELSE IF FGt(abs_corr, 2000) THEN "Weak"
    ELSE "Very Weak"

Strength(abs_corr) ==
    IF FGe(abs_corr, 8000) THEN "Very Strong"
    ELSE IF FGe(abs_corr, 6000) THEN "Strong"
    ELSE IF FGe(abs_corr, 4000) THEN "Moderate"
    ELSE IF FGe(abs_corr, 2000) THEN "Weak"
    ELSE "Very Weak"

\* `>=` in place of `>`
DirectionNonNegative(correlation) ==
    IF FGe(correlation, 0) THEN "Positive" ELSE "Negative"

Direction(correlation) == IF FGt(correlation, 0) THEN "Positive" ELSE "Negative"

Sentinel(strength) == [correlation |-> 0, strength |-> strength, p_value |-> 1]

\* `<=` in place of `<`
TooFewInclusive(n) == n <= MinPoints

\* line 73: len(combined_data) < 30
TooFew(n) == n < MinPoints

\* lines 60-101: the try block; the result, or the exception that leaves it
calculate_correlation_try(ticker1, ticker2) ==
    LET data1 == get_stock_price_data(ticker1)
        data2 == get_stock_price_data(ticker2)
    IN  IF data1 = "raised" \/ data2 = "raised"
        THEN Raised("ConnectionError")
        ELSE IF data1 = PyNone \/ data2 = PyNone THEN Sentinel("No Data")
        ELSE IF data1 = "malformed" \/ data2 = "malformed"
        THEN Raised("KeyError")   \* data['Close'] of a frame without Close
        ELSE IF TooFew(market[ticker2].joined)
        THEN Sentinel("Insufficient Data")
        ELSE LET correlation == market[ticker2].pearson
             IN  [correlation |-> Round3(correlation),
                  strength    |-> Strength(FAbs(correlation)),
                  direction   |-> Direction(correlation),
                  data_points |-> market[ticker2].joined - 1]

\* lines 57-105: the try block under `except Exception` (line 103)
calculate_correlation(ticker1, ticker2) ==
    LET r == calculate_correlation_try(ticker1, ticker2)
    IN  IF IsRaised(r) /\ CaughtByExcept(r.exception) THEN Sentinel("Error")
        ELSE r

---------------------------------------------------------------------------
(* list.sort(key=..., reverse=True) as CPython runs it on a list of fewer  *)
(* than 64 items: reverse, one run found by count_run, binary insertion    *)
(* of the rest, reverse.  ISLT is the float `<` on the keys.               *)

SortKey(x) == FAbs(x.correlation)

KeyLt(a, b) == FLt(SortKey(a), SortKey(b))

RECURSIVE RunEnd(_, _, _)
RunEnd(s, n, descending) ==
    IF n >= Len(s) THEN n
    ELSE IF KeyLt(s[n + 1], s[n]) = descending
    THEN RunEnd(s, n + 1, descending)
    ELSE n

RECURSIVE BinSearch(_, _, _, _)
BinSearch(s, pivot, l, r) ==
    IF l >= r THEN l
    ELSE LET p == l + ((r - l) \div 2)
         IN  IF KeyLt(pivot, s[p]) THEN BinSearch(s, pivot, l, p)
             ELSE BinSearch(s, pivot, p + 1, r)

MoveTo(s, idx, l) ==
    [i \in 1..Len(s) |->
        IF i < l THEN s[i]
        ELSE IF i = l THEN s[idx]
        ELSE IF i <= idx THEN s[i - 1]
        ELSE s[i]]

RECURSIVE BinarySort(_, _)
BinarySort(s, idx) ==
    IF idx > Len(s) THEN s
    ELSE BinarySort(MoveTo(s, idx, BinSearch(s, s[idx], 1, idx)), idx + 1)

SortAscending(s) ==
    IF Len(s) <= 1 THEN s
    ELSE LET descending == KeyLt(s[2], s[1])
             n == RunEnd(s, 2, descending)
             run == IF descending
                    THEN [i \in 1..Len(s) |-> IF i <= n THEN s[n + 1 - i] ELSE s[i]]
                    ELSE s
         IN  BinarySort(run, n + 1)

SortResults(s) == Reverse(SortAscending(Reverse(s)))

---------------------------------------------------------------------------
(* analyze_stock_impact: the pieces *)

\* dict.get("direction", "Neutral")
GetDirection(d) == IF "direction" \in DOMAIN d THEN d.direction ELSE "Neutral"

Entry(stock, category, correlation_data) ==
    [ticker            |-> stock,
     relationship_type |-> category,
     correlation       |-> correlation_data.correlation,
     strength          |-> correlation_data.strength,
     direction         |-> GetDirection(correlation_data),
     impact_score      |-> FMul(FAbs(correlation_data.correlation), 100)]

\* the test of line 168 left out
KeptAlways(correlation_data) == TRUE

\* line 168: the entry is kept when the reported coefficient != 0.0
Kept(correlation_data) == FNe(correlation_data.correlation, 0)

AbsList(rs) == [i \in 1..Len(rs) |-> FAbs(rs[i].correlation)]

HasNaN(xs) == \E i \in 1..Len(xs) : IsNaN(xs[i])

\* max(list): the first item, replaced by each later item that is > it
RECURSIVE PyMaxFrom(_, _, _)
PyMaxFrom(xs, i, best) ==
    IF i > Len(xs) THEN best
    ELSE PyMaxFrom(xs, i + 1, IF FGt(xs[i], best) THEN xs[i] ELSE best)

PyMax(xs) == PyMaxFrom(xs, 2, xs[1])

\* `>` in place of `>=`
MeanGt(xs, k) == ~HasNaN(xs) /\ SeqSum(xs) > k * Len(xs)

\* avg >= k/1000, for the mean of xs (false when the mean is NaN)
MeanGe(xs, k) == ~HasNaN(xs) /\ SeqSum(xs) >= k * Len(xs)

\* round(np.mean(xs), 3)
RoundMean(xs) == IF HasNaN(xs) THEN NaN ELSE RoundDiv(SeqSum(xs), Len(xs))

\* "Unknown" in place of "Low"
MarketInfluenceLowUnknown(rs) ==
    IF rs # <<>>
    THEN IF MeanGe(AbsList(rs), 600) THEN "High"
         ELSE IF MeanGe(AbsList(rs), 400) THEN "Moderate"
         ELSE "Unknown"
    ELSE "Unknown"

MarketInfluence(rs) ==
    IF rs # <<>>
    THEN IF MeanGe(AbsList(rs), 600) THEN "High"
         ELSE IF MeanGe(AbsList(rs), 400) THEN "Moderate"
         ELSE "Low"
    ELSE "Unknown"

Summary(rs) ==
    [total_analyzed      |-> Len(rs),
     average_correlation |-> IF rs # <<>> THEN RoundMean(AbsList(rs)) ELSE 0,
     max_correlation     |-> IF rs # <<>> THEN PyMax(AbsList(rs)) ELSE 0,
     market_influence    |-> MarketInfluence(rs)]

\* lines 201-211
OkResult(ticker, rs) ==
    [primary_ticker |-> ticker,
     related_stocks |-> rs,
     summary        |-> Summary(rs),
     timestamp      |-> "now"]

\* the handler returning the result of an analysis that found nothing
ErrorResultAsEmpty(ticker, e) == OkResult(ticker, <<>>)

\* lines 213-225
ErrorResult(ticker, e) ==
    [primary_ticker |-> ticker,
     related_stocks |-> <<>>,
     summary        |-> [total_analyzed      |-> 0,
                         average_correlation |-> 0,
                         max_correlation     |-> 0,
                         market_influence    |-> "Error"],
     error          |-> e]

---------------------------------------------------------------------------
(* The inputs: requests, market data, task run times *)

Requests ==
    {<<"AAPL", "Technology">>,
     <<"MARUTI.NS", "Consumer Cyclical">>,
     <<"AAPL", "Crypto">>,
     <<"MARUTI.NS", "Utilities">>,
     <<PyNone, "Technology">>}

Series(joined, pearson) ==
    [fetch |-> "ok", joined |-> joined, pearson |-> pearson]

NoSeries(fetch) == [fetch |-> fetch, joined |-> 0, pearson |-> 0]

PearsonValues == {NaN, 0, 4, 3000, 5000, 0 - 9000, 9000}

PeerData ==
    {NoSeries("empty"), NoSeries("raise"), NoSeries("malformed"),
     Series(MinPoints - 1, 9000)}
    \cup {Series(MinPoints, p) : p \in PearsonValues}

\* the data of the later peers of a pattern
PeerDataRest ==
    {NoSeries("empty"), Series(MinPoints, 4), Series(MinPoints, 0 - 5000),
     Series(MinPoints, 9000)}

Patterns ==
    {pat \in [1..PatLen -> PeerData] :
        \A k \in 2..PatLen : pat[k] \in PeerDataRest}

PrimaryData == {NoSeries("empty"), NoSeries("raise"), NoSeries("malformed")}

\* the requests whose peers get any data; the others run on TimingPattern
DataRequests == Requests \ {<<"AAPL", "Technology">>}

TimingPattern ==
    [k \in 1..PatLen |->
        IF k % 2 = 1 THEN Series(MinPoints, 9000)
        ELSE Series(MinPoints, 0 - 5000)]

FastLatency == 1
SlowLatency == Timeout + 2

PeersOf(ticker, sec) ==
    IF find_sector_peers_raises(ticker) THEN <<>>
    ELSE find_sector_peers(ticker, sec)

NumTasks(ticker, sec) ==
    IF find_sector_peers_raises(ticker) THEN 0
    ELSE Len(Flatten(get_related_stocks(ticker, sec)))

\* the market in which the primary ticker has data `own` and the k-th peer
\* has data pat[k], the pattern repeating along the peer list
MarketOf(ticker, peers, own, pat) ==
    [t \in {ticker} \cup Range(peers) |->
        IF t = ticker THEN own
        ELSE LET k == CHOOSE i \in 1..Len(peers) : peers[i] = t
             IN  pat[((k - 1) % Len(pat)) + 1]]

AllFast(n) == [i \in 1..n |-> FastLatency]

Latencies(n) ==
    {l \in [1..n -> {FastLatency, SlowLatency}] :
        Cardinality({i \in 1..n : l[i] # FastLatency}) <= MaxSlow}

InitControl ==
    /\ engine = Catalogs
    /\ presented = [pending |-> TRUE]
    /\ pc = "start"
    /\ all_related = <<>>
    /\ futures = <<>>
    /\ remaining = <<>>
    /\ cur = 0
    /\ waited = 0
    /\ correlation_results = <<>>
    /\ result = [pending |-> TRUE]
    /\ now = 0
    /\ started = <<>>
    /\ wait_began = <<>>
    /\ collected = {}
    /\ timed_out = {}
    /\ out_of_order = FALSE

\* any peer data, every task fast
InitData ==
    \E req \in DataRequests, pat \in Patterns :
        /\ primary_ticker = req[1]
        /\ sector = req[2]
        /\ market = MarketOf(req[1], PeersOf(req[1], req[2]),
                             Series(MinPoints, 10000), pat)
        /\ latency = AllFast(NumTasks(req[1], req[2]))

\* no usable data for the primary ticker
InitPrimary ==
    \E req \in Requests, own \in PrimaryData :
        /\ primary_ticker = req[1]
        /\ sector = req[2]
        /\ market = MarketOf(req[1], PeersOf(req[1], req[2]), own,
                             TimingPattern)
        /\ latency = AllFast(NumTasks(req[1], req[2]))

\* good data, up to MaxSlow slow tasks
InitTiming ==
    \E req \in Requests :
        /\ primary_ticker = req[1]
        /\ sector = req[2]
        /\ market = MarketOf(req[1], PeersOf(req[1], req[2]),
                             Series(MinPoints, 10000), TimingPattern)
        /\ latency \in Latencies(NumTasks(req[1], req[2]))

\* the end-to-end scenario: MSFT, GOOGL, META, NVDA and CRM move with AAPL,
\* ORCL and ADBE against it; INTC, the eighth peer, has any data
ScenarioPattern(last) ==
    [k \in 1..PeerLimit |->
        IF k <= 5 THEN Series(MinPoints, 10000)
        ELSE IF k <= 7 THEN Series(MinPoints, 0 - 10000)
        ELSE last]

InitScenario ==
    \E last \in {NoSeries("empty"), Series(MinPoints, 3000)} :
        /\ primary_ticker = "AAPL"
        /\ sector = "Technology"
        /\ market = MarketOf("AAPL", PeersOf("AAPL", "Technology"),
                             Series(MinPoints, 10000), ScenarioPattern(last))
        /\ latency = AllFast(NumTasks("AAPL", "Technology"))

\* a task that outlasts the waits of all the futures before the first
\* queued one
LongLatency == (MaxWorkers + 1) * Timeout + 2

\* the tasks that get the workers first are long, the others fast
InitStarve ==
    /\ primary_ticker = "MARUTI.NS"
    /\ sector = "Consumer Cyclical"
    /\ market = MarketOf("MARUTI.NS",
                         PeersOf("MARUTI.NS", "Consumer Cyclical"),
                         Series(MinPoints, 10000), TimingPattern)
    /\ latency = [i \in 1..NumTasks("MARUTI.NS", "Consumer Cyclical") |->
                    IF i <= MaxWorkers THEN LongLatency ELSE FastLatency]

\* coefficients whose average is just below 0.6 and rounds to 0.6
RoundingPattern ==
    [k \in 1..PeerLimit |->
        IF k = 1 THEN Series(MinPoints, 5990) ELSE Series(MinPoints, 6000)]

InitRounding ==
    /\ primary_ticker = "MARUTI.NS"
    /\ sector = "Consumer Cyclical"
    /\ market = MarketOf("MARUTI.NS",
                         PeersOf("MARUTI.NS", "Consumer Cyclical"),
                         Series(MinPoints, 10000), RoundingPattern)
    /\ latency = AllFast(NumTasks("MARUTI.NS", "Consumer Cyclical"))

Init ==
    /\ InitControl
    /\ \/ InitData
       \/ InitPrimary
       \/ InitTiming
       \/ InitScenario
       \/ InitStarve
       \/ InitRounding

---------------------------------------------------------------------------
(* analyze_stock_impact and the worker pool *)

inputs == <<primary_ticker, sector, market, latency>>

history == <<now, started, wait_began, collected, timed_out, out_of_order>>

Running == {i \in 1..Len(futures) : futures[i].state = "running"}

Queued == {i \in 1..Len(futures) : futures[i].state = "queued"}

NumRunning == Cardinality(Running)

AllDone == \A i \in 1..Len(futures) : futures[i].state = "done"

Pending == [pending |-> TRUE]

\* an exception leaving the outer try block: lines 213-225
Unwind(e) ==
    IF CaughtByExcept(e)
    THEN /\ pc' = "returned"
         /\ result' = ErrorResult(primary_ticker, e)
    ELSE /\ pc' = "raised"
         /\ result' = result

\* lines 144-156: get_related_stocks and the flattening loop
Resolve ==
    /\ pc = "start"
    /\ IF find_sector_peers_raises(primary_ticker)
       THEN /\ Unwind("AttributeError")
            /\ UNCHANGED <<all_related, engine>>
       ELSE /\ all_related' = Flatten(get_related_stocks(primary_ticker, sector))
            /\ engine' = find_sector_peers_catalogs(engine, primary_ticker,
                                                    sector)
            /\ pc' = IF all_related' = <<>> THEN "shutdown" ELSE "submit"
            /\ result' = result
    /\ UNCHANGED <<inputs, presented, futures, remaining, cur, waited,
                   correlation_results, history>>

\* lines 161-163: executor.submit for the next (stock, category)
Submit ==
    /\ pc = "submit"
    /\ Len(futures) < Len(all_related)
    /\ futures' = Append(futures, [state |-> "queued", value |-> Pending])
    /\ remaining' = Append(remaining, 0)
    /\ started' = Append(started, 0)
    /\ wait_began' = Append(wait_began, 0)
    /\ IF Len(futures') = Len(all_related)
       THEN pc' = "collect" /\ cur' = 1 /\ waited' = 0
       ELSE UNCHANGED <<pc, cur, waited>>
    /\ UNCHANGED <<inputs, engine, presented, all_related, correlation_results, result, now,
                   collected, timed_out, out_of_order>>

\* a thread per work item
CanStartUnbounded(i) ==
    /\ i \in Queued
    /\ \A j \in Queued : i <= j

\* ThreadPoolExecutor(max_workers=5): a worker takes the oldest work item
CanStart(i) ==
    /\ i \in Queued
    /\ \A j \in Queued : i <= j
    /\ NumRunning < MaxWorkers

StartTask(i) ==
    /\ CanStart(i)
    /\ futures' = [futures EXCEPT ![i].state = "running"]
    /\ remaining' = [remaining EXCEPT ![i] = latency[i]]
    /\ started' = [started EXCEPT ![i] = now]
    /\ UNCHANGED <<pc, inputs, engine, presented, all_related, cur, waited, correlation_results,
                   result, now, wait_began, collected, timed_out,
                   out_of_order>>

\* the worker's call of calculate_correlation returns; the future is set
FinishTask(i) ==
    /\ i \in Running
    /\ remaining[i] = 0
    /\ futures' = [futures EXCEPT ![i] =
                     [state |-> "done",
                      value |-> calculate_correlation(primary_ticker,
                                                      all_related[i][1])]]
    /\ out_of_order' =
          (out_of_order \/ \E j \in 1..(i - 1) : futures[j].state # "done")
    /\ UNCHANGED <<pc, inputs, engine, presented, all_related, remaining, cur, waited,
                   correlation_results, result, now, started, wait_began,
                   collected, timed_out>>

\* as_completed(futures): the iteration takes a future that is done, if any
FutureToCollectCompleted ==
    LET todo == (1..Len(futures)) \ collected
        done == {i \in todo : futures[i].state = "done"}
    IN  IF done # {} THEN CHOOSE i \in done : \A j \in done : j <= i
        ELSE CHOOSE i \in todo : \A j \in todo : i <= j

\* `for future, stock, category in futures`: the cur-th iteration takes the
\* cur-th future submitted
FutureToCollect == cur

\* the collect loop moves to the next future, or leaves the with block
NextFuture ==
    IF cur = Len(futures)
    THEN pc' = "shutdown" /\ cur' = cur /\ waited' = 0
    ELSE pc' = "collect" /\ cur' = cur + 1 /\ waited' = 0

\* lines 165-179: future.result returns the task's result, or raises the
\* exception the task ended with, which line 177 catches
CollectResult ==
    /\ pc = "collect"
    /\ LET c == FutureToCollect
           correlation_data == futures[c].value
       IN  /\ futures[c].state = "done"
           /\ collected' = collected \cup {c}
           /\ wait_began' = [wait_began EXCEPT ![c] = now - waited]
           /\ IF IsRaised(correlation_data)
              THEN /\ correlation_results' = correlation_results
                   /\ IF CaughtByExcept(correlation_data.exception)
                      THEN NextFuture /\ result' = result
                      ELSE /\ Unwind(correlation_data.exception)
                           /\ UNCHANGED <<cur, waited>>
              ELSE /\ correlation_results' =
                         IF Kept(correlation_data)
                         THEN Append(correlation_results,
                                     Entry(all_related[c][1],
                                           all_related[c][2],
                                           correlation_data))
                         ELSE correlation_results
                   /\ NextFuture
                   /\ result' = result
    /\ UNCHANGED <<inputs, engine, presented, all_related, futures, remaining, now, started,
                   timed_out, out_of_order>>

\* timeout=1
WaitExpiredEarly == waited >= 1

\* future.result(timeout=10) gives up
WaitExpired == waited >= Timeout

\* lines 167, 177-179: future.result raises TimeoutError, caught at line 177
TimeoutResult ==
    /\ pc = "collect"
    /\ LET c == FutureToCollect
       IN  /\ futures[c].state # "done"
           /\ WaitExpired
           /\ collected' = collected \cup {c}
           /\ timed_out' = timed_out \cup {c}
           /\ wait_began' = [wait_began EXCEPT ![c] = now - waited]
    /\ IF CaughtByExcept("TimeoutError")
       THEN NextFuture /\ result' = result
       ELSE Unwind("TimeoutError") /\ UNCHANGED <<cur, waited>>
    /\ UNCHANGED <<inputs, engine, presented, all_related, futures, remaining,
                   correlation_results, now, started, out_of_order>>

\* the caller is blocked: in future.result, or at the end of the with block
Waiting ==
    \/ pc = "collect" /\ futures[FutureToCollect].state # "done" /\ ~WaitExpired
    \/ pc = "shutdown" /\ ~AllDone

\* time passes, up to the next completion or the end of the wait
Advance ==
    /\ Waiting
    /\ Running # {}
    /\ \A i \in Running : remaining[i] > 0
    /\ ~\E i \in 1..Len(futures) : CanStart(i)
    /\ LET ends == {remaining[i] : i \in Running}
                   \cup (IF pc = "collect" THEN {Timeout - waited} ELSE {})
           step == CHOOSE d \in ends : \A e \in ends : d <= e
       IN  /\ remaining' = [i \in 1..Len(remaining) |->
                              IF i \in Running THEN remaining[i] - step
                              ELSE remaining[i]]
           /\ waited' = IF pc = "collect" THEN waited + step ELSE waited
           /\ now' = now + step
    /\ UNCHANGED <<pc, inputs, engine, presented, all_related, futures, cur, correlation_results,
                   result, started, wait_began, collected, timed_out,
                   out_of_order>>

\* the with block ends (shutdown(wait=True)); lines 181-211
ShutdownAndReturn ==
    /\ pc = "shutdown"
    /\ AllDone
    /\ pc' = "returned"
    /\ result' = OkResult(primary_ticker, SortResults(correlation_results))
    /\ UNCHANGED <<inputs, engine, presented, all_related, futures, remaining, cur, waited,
                   correlation_results, history>>

Next ==
    \/ Resolve
    \/ Submit
    \/ \E i \in 1..Len(futures) : StartTask(i)
    \/ \E i \in 1..Len(futures) : FinishTask(i)
    \/ CollectResult
    \/ TimeoutResult
    \/ Advance
    \/ ShutdownAndReturn

Spec == Init /\ [][Next]_vars

---------------------------------------------------------------------------
(* calculate_correlation called on its own, for one pair of tickers *)

ExtraPoints == 1

FetchKinds == {"ok", "empty", "raise", "malformed"}

JoinedValues == {0, 1} \cup ((MinPoints - 1)..(MinPoints + ExtraPoints))

StrengthBounds == {2000, 4000, 6000, 8000}

Magnitudes ==
    {0, 4, 6, 10000}
    \cup UNION {{b - 6, b - 4, b, b + 4} : b \in StrengthBounds}

CorrelatePearson == {NaN} \cup Magnitudes \cup {0 - m : m \in Magnitudes}

CorrelateData ==
    {NoSeries(f) : f \in FetchKinds \ {"ok"}}
    \cup {Series(j, p) : j \in JoinedValues, p \in CorrelatePearson}

CorrelatePair == <<"AAPL", "MSFT">>

CorrelateInit ==
    /\ InitControl
    /\ primary_ticker = CorrelatePair[1]
    /\ sector = "Technology"
    /\ latency = <<>>
    /\ \E f \in FetchKinds, d \in CorrelateData :
          market = [t \in {CorrelatePair[1], CorrelatePair[2]} |->
                      IF t = CorrelatePair[1]
                      THEN (IF f = "ok" THEN Series(d.joined, 10000)
                            ELSE NoSeries(f))
                      ELSE d]

\* lines 57-105: one call of calculate_correlation(ticker1, ticker2)
Correlate ==
    /\ pc = "start"
    /\ LET r == calculate_correlation(CorrelatePair[1], CorrelatePair[2])
       IN  IF IsRaised(r)
           THEN pc' = "raised" /\ result' = result
           ELSE pc' = "correlated" /\ result' = r
    /\ UNCHANGED <<inputs, engine, presented, all_related, futures, remaining, cur, waited,
                   correlation_results, history>>

CorrelateSpec == CorrelateInit /\ [][Correlate]_vars

---------------------------------------------------------------------------
(* format_correlation_strength, on the coefficient the engine classified *)

StrengthColor ==
    [s \in {"Very Strong", "Strong", "Moderate", "Weak", "Very Weak"} |->
        CASE s = "Very Strong" -> "#e74c3c"
          [] s = "Strong"      -> "#f39c12"
          [] s = "Moderate"    -> "#f1c40f"
          [] s = "Weak"        -> "#3498db"
          [] s = "Very Weak"   -> "#95a5a6"]

\* no "Neutral": the engine's two-way direction
format_direction_two_way(correlation) == Direction(correlation)

\* "Positive" if correlation > 0 else "Negative" if correlation < 0
\* else "Neutral"
format_direction(correlation) ==
    IF FGt(correlation, 0) THEN "Positive"
    ELSE IF FLt(correlation, 0) THEN "Negative"
    ELSE "Neutral"

\* the if/elif chain on abs_corr
format_strength(abs_corr) ==
    IF FGe(abs_corr, 8000) THEN "Very Strong"
    ELSE IF FGe(abs_corr, 6000) THEN "Strong"
    ELSE IF FGe(abs_corr, 4000) THEN "Moderate"
    ELSE IF FGe(abs_corr, 2000) THEN "Weak"
    ELSE "Very Weak"

format_correlation_strength(correlation) ==
    LET abs_corr == FAbs(correlation)
    IN  [strength  |-> format_strength(abs_corr),
         color     |-> StrengthColor[format_strength(abs_corr)],
         direction |-> format_direction(correlation)]

\* format_correlation_strength called with the coefficient that
\* calculate_correlation has classified
Format ==
    /\ pc = "correlated"
    /\ "direction" \in DOMAIN result
    /\ presented' = format_correlation_strength(market[CorrelatePair[2]].pearson)
    /\ pc' = "formatted"
    /\ UNCHANGED <<inputs, engine, result, all_related, futures, remaining,
                   cur, waited, correlation_results, history>>

FormatNext == Correlate \/ Format

FormatSpec == CorrelateInit /\ [][FormatNext]_vars

---------------------------------------------------------------------------
(* get_related_stocks and the flattening, for every ticker and sector *)

ResolverTickers ==
    UNION {Range(sector_mapping[s]) : s \in DOMAIN sector_mapping}
    \cup UNION {Range(indian_sectors[s]) : s \in DOMAIN indian_sectors}
    \cup {"TCS.BO", "ZOMATO.NS", "ZZZZ", PyNone}

ResolverSectors == DOMAIN sector_mapping \cup {"Crypto"}

ResolverInit ==
    /\ InitControl
    /\ primary_ticker \in ResolverTickers
    /\ sector \in ResolverSectors
    /\ market = <<>>
    /\ latency = <<>>

ResolverSpec == ResolverInit /\ [][Resolve]_vars

---------------------------------------------------------------------------
(* get_impact_network_data *)

\* `>` in place of `>=`
ColorOfOpen(abs_corr) ==
    IF FGt(abs_corr, 600) THEN "#e74c3c"
    ELSE IF FGt(abs_corr, 400) THEN "#f39c12"
    ELSE "#3498db"

\* lines 237-242, for a coefficient in units of 1/1000
ColorOf(abs_corr) ==
    IF FGe(abs_corr, 600) THEN "#e74c3c"
    ELSE IF FGe(abs_corr, 400) THEN "#f39c12"
    ELSE "#3498db"

\* lines 244-250; the size in units of 1/1000
NetworkNode(r) ==
    [id           |-> r.ticker,
     label        |-> r.ticker,
     color        |-> ColorOf(FAbs(r.correlation)),
     size         |-> FAdd(FMul(FAbs(r.correlation), 50), 10000),
     relationship |-> r.relationship_type]

\* lines 252-258; the width in units of 1/1000
NetworkEdge(r) ==
    [from        |-> "primary",
     to          |-> r.ticker,
     width       |-> FMul(FAbs(r.correlation), 5),
     color       |-> ColorOf(FAbs(r.correlation)),
     correlation |-> r.correlation]

get_impact_network_data(list) ==
    [nodes |-> [i \in 1..Len(list) |-> NetworkNode(list[i])],
     edges |-> [i \in 1..Len(list) |-> NetworkEdge(list[i])]]

\* lines 235-258: the list passed is only read
get_impact_network_data_list(list) == list

MaxEntries == 2

ProjectCoefficients ==
    {NaN, 0, 399, 400, 0 - 400, 599, 600, 0 - 600, 1000}

ProjectEntries ==
    {Entry(t, "sector_peers",
           [correlation |-> c,
            strength    |-> Strength(FMul(FAbs(c), 10)),
            direction   |-> Direction(c)]) :
        t \in {"MSFT", "GOOGL"}, c \in ProjectCoefficients}

ProjectLists == UNION {[1..n -> ProjectEntries] : n \in 0..MaxEntries}

ProjectInit ==
    /\ engine = Catalogs
    /\ presented = [pending |-> TRUE]
    /\ pc = "start"
    /\ primary_ticker = "AAPL"
    /\ sector = "Technology"
    /\ market = <<>>
    /\ latency = <<>>
    /\ all_related = <<>>
    /\ futures = <<>>
    /\ remaining = <<>>
    /\ cur = 0
    /\ waited = 0
    /\ correlation_results \in ProjectLists
    /\ result = [pending |-> TRUE]
    /\ now = 0
    /\ started = <<>>
    /\ wait_began = <<>>
    /\ collected = {}
    /\ timed_out = {}
    /\ out_of_order = FALSE

\* lines 227-260: one call of get_impact_network_data(correlation_results)
Project ==
    /\ pc = "start"
    /\ presented' = get_impact_network_data(correlation_results)
    /\ correlation_results' = get_impact_network_data_list(correlation_results)
    /\ pc' = "projected"
    /\ UNCHANGED <<inputs, engine, all_related, futures, remaining, cur,
                   waited, result, history>>

ProjectSpec == ProjectInit /\ [][Project]_vars

---------------------------------------------------------------------------
(* One engine over a sequence of calls: an analysis, the projection of the
   list it returned, then the next analysis *)

EngineLatencies(n) ==
    {AllFast(n),
     [i \in 1..n |-> IF i = 1 THEN SlowLatency ELSE FastLatency]}

EngineInputs ==
    UNION {{[primary_ticker |-> req[1],
             sector         |-> req[2],
             market         |-> MarketOf(req[1], PeersOf(req[1], req[2]),
                                         Series(MinPoints, 10000),
                                         TimingPattern),
             latency        |-> l] :
               l \in EngineLatencies(NumTasks(req[1], req[2]))} :
           req \in Requests}

EngineInit ==
    /\ InitControl
    /\ \E c \in EngineInputs :
          /\ primary_ticker = c.primary_ticker
          /\ sector = c.sector
          /\ market = c.market
          /\ latency = c.latency

\* get_impact_network_data(result["related_stocks"]) on the result of the
\* analysis
ProjectResult ==
    /\ pc = "returned"
    /\ presented' = get_impact_network_data(result.related_stocks)
    /\ result' = [result EXCEPT
                    !.related_stocks = get_impact_network_data_list(@)]
    /\ pc' = "projected"
    /\ UNCHANGED <<inputs, engine, all_related, futures, remaining, cur,
                   waited, correlation_results, history>>

\* the next call of analyze_stock_impact on the same engine: the locals of
\* the call are new, self is the same object
NextCall ==
    /\ pc = "projected"
    /\ \E c \in EngineInputs :
          /\ primary_ticker' = c.primary_ticker
          /\ sector' = c.sector
          /\ market' = c.market
          /\ latency' = c.latency
    /\ pc' = "start"
    /\ presented' = [pending |-> TRUE]
    /\ all_related' = <<>>
    /\ futures' = <<>>
    /\ remaining' = <<>>
    /\ cur' = 0
    /\ waited' = 0
    /\ correlation_results' = <<>>
    /\ result' = [pending |-> TRUE]
    /\ now' = 0
    /\ started' = <<>>
    /\ wait_began' = <<>>
    /\ collected' = {}
    /\ timed_out' = {}
    /\ out_of_order' = FALSE
    /\ UNCHANGED engine

EngineNext ==
    \/ Next
    \/ ProjectResult
    \/ NextCall

EngineSpec == EngineInit /\ [][EngineNext]_vars

---------------------------------------------------------------------------
(* Properties of analyze_stock_impact *)

Returned == pc = "returned"

OkReturned == Returned /\ "timestamp" \in DOMAIN result

Stocks == result.related_stocks

NumCandidates == Len(all_related)

\* the entry of relatedStocks made for the i-th candidate
IsEntryOf(e, i) ==
    e.ticker = all_related[i][1] /\ e.relationship_type = all_related[i][2]

HasEntry(i) == \E k \in 1..Len(Stocks) : IsEntryOf(Stocks[k], i)

CandidateIndex(e) == CHOOSE i \in 1..NumCandidates : IsEntryOf(e, i)

CorrelationOf(i) == calculate_correlation(primary_ticker, all_related[i][1])

ResultKeys == {"primary_ticker", "related_stocks", "summary"}

\* some step of the call or of a worker can be taken
CanStep ==
    \/ pc = "start"                                     \* Resolve
    \/ pc = "shutdown" /\ AllDone                       \* ShutdownAndReturn
    \/ ENABLED (\/ Submit
                \/ \E i \in 1..Len(futures) : StartTask(i)
                \/ \E i \in 1..Len(futures) : FinishTask(i)
                \/ CollectResult
                \/ TimeoutResult
                \/ Advance)

\* C1: analyze is total.  For every ticker, sector and behaviour of the price
\* provider (a series, nothing, an exception, a slow answer) the call never
\* lets an exception out, it can always go on until it has returned, and what
\* it returns is a result record for the ticker it was given.
C1_AnalyzeTotal ==
    /\ pc # "raised"
    /\ pc # "returned" => CanStep
    /\ Returned =>
         /\ DOMAIN result \in {ResultKeys \cup {"timestamp"},
                               ResultKeys \cup {"error"}}
         /\ result.primary_ticker = primary_ticker
         /\ DOMAIN result.summary =
               {"total_analyzed", "average_correlation", "max_correlation",
                "market_influence"}

C1_Witness ==
    /\ Returned
    /\ NumCandidates > 0
    /\ \E t \in DOMAIN market : market[t].fetch = "raise"

\* C2: the flattened candidate list holds every ticker at most once, so does
\* relatedStocks, and the category recorded for a ticker is the first of
\* sector_peers, industry_peers, competitors in which the resolver gave it.
C2_Deduplicated ==
    /\ \A i, j \in 1..NumCandidates :
          i # j => all_related[i][1] # all_related[j][1]
    /\ Returned =>
          \A k, l \in 1..Len(Stocks) :
              k # l => Stocks[k].ticker # Stocks[l].ticker
    /\ pc \notin {"start", "raised"} /\ ~find_sector_peers_raises(primary_ticker) =>
          LET related == get_related_stocks(primary_ticker, sector)
          IN  \A i \in 1..NumCandidates :
                 \A k \in 1..Len(Categories) :
                    all_related[i][1] \in Range(related[Categories[k]]) =>
                       \E m \in 1..k : all_related[i][2] = Categories[m]

\* C3: at every moment of a call at most 5 correlation computations are
\* running, however many candidates there are, the computations whose
\* future.result has already timed out counted among them.
C3_PoolBound == Cardinality(Running) <= MaxWorkers

C3_Witness ==
    /\ Cardinality(Running) = MaxWorkers
    /\ Queued # {}
    /\ NumCandidates > MaxWorkers

\* C4, as claimed: a candidate whose task takes more than 10 time units from
\* the moment the task starts running is dropped from relatedStocks.
C4_TimeoutFromTaskStart ==
    Returned =>
       \A i \in 1..NumCandidates : latency[i] > Timeout => ~HasEntry(i)

\* C4, amended: the 10 time units run from the moment the collect loop calls
\* future.result on the candidate, which it does once every earlier candidate
\* has been collected or has timed out.  A candidate is dropped for timing
\* exactly when its task is not complete 10 units after that call; it is
\* then in no entry, no task is submitted twice and no entry reports an
\* error.  A task that runs for more than 10 units is kept when it completes
\* within 10 units of the call.
C4_TimeoutFromWait ==
    OkReturned =>
       /\ Len(futures) = NumCandidates
       /\ \A i \in 1..NumCandidates :
             /\ i \in timed_out =>
                   /\ ~HasEntry(i)
                   /\ started[i] + latency[i] >= wait_began[i] + Timeout
             /\ i \notin timed_out =>
                   /\ started[i] + latency[i] <= wait_began[i] + Timeout
                   /\ Kept(CorrelationOf(i)) => HasEntry(i)
       /\ \A k \in 1..Len(Stocks) :
             Stocks[k].strength \in
                {"Very Weak", "Weak", "Moderate", "Strong", "Very Strong"}

C4_Witness ==
    /\ OkReturned
    /\ timed_out # {}
    /\ \E i \in 1..NumCandidates :
          latency[i] > Timeout /\ i \notin timed_out /\ HasEntry(i)

\* C5: relatedStocks is in descending order of the absolute reported
\* coefficient (each entry's is >= the next entry's), and entries with the
\* same absolute coefficient are in the order of the flattened candidate list.
C5_SortedStable ==
    OkReturned =>
       /\ \A k \in 1..(Len(Stocks) - 1) :
             FGe(FAbs(Stocks[k].correlation), FAbs(Stocks[k + 1].correlation))
       /\ \A k, l \in 1..Len(Stocks) :
             (k < l /\ FAbs(Stocks[k].correlation) = FAbs(Stocks[l].correlation))
                => CandidateIndex(Stocks[k]) < CandidateIndex(Stocks[l])

\* the entries of the candidates i..n, in candidate order, as one task after
\* the other would give them
RECURSIVE EntriesBetween(_, _)
EntriesBetween(i, n) ==
    IF i > n THEN <<>>
    ELSE (IF FNe(CorrelationOf(i).correlation, 0)
          THEN <<Entry(all_related[i][1], all_related[i][2], CorrelationOf(i))>>
          ELSE <<>>) \o EntriesBetween(i + 1, n)

EntriesFrom(i) == EntriesBetween(i, NumCandidates)

\* C6: with the ticker, the sector and the provider fixed and no task timing
\* out, relatedStocks and the summary are the same in every interleaving and
\* for every order in which the tasks complete: they are what the candidates
\* give when taken one after the other, and so is the list collected so far
\* at every point of the collect loop.
C6_OrderIndependent ==
    /\ (pc \in {"collect", "shutdown"} /\ timed_out = {}) =>
          correlation_results = EntriesBetween(1, Cardinality(collected))
    /\ (OkReturned /\ timed_out = {}) =>
          /\ Stocks = SortResults(EntriesFrom(1))
          /\ result.summary = Summary(SortResults(EntriesFrom(1)))

C6_Witness ==
    /\ OkReturned
    /\ timed_out = {}
    /\ out_of_order
    /\ \E k, l \in 1..Len(Stocks) :
          FAbs(Stocks[k].correlation) # FAbs(Stocks[l].correlation)

SentinelStrengths == {"No Data", "Insufficient Data", "Error"}

\* C7: no entry of relatedStocks has the coefficient 0.0 or the strength
\* "No Data", "Insufficient Data" or "Error", and a candidate whose
\* correlation is a sentinel, or a real coefficient that rounds to 0.0, has
\* no entry.
C7_NoSentinel ==
    Returned =>
       /\ \A k \in 1..Len(Stocks) :
             /\ Stocks[k].correlation # 0
             /\ Stocks[k].strength \notin SentinelStrengths
       /\ \A i \in 1..NumCandidates :
             (\/ CorrelationOf(i).correlation = 0
              \/ CorrelationOf(i).strength \in SentinelStrengths)
                => ~HasEntry(i)

C7_Witness ==
    /\ OkReturned
    /\ \E i \in 1..NumCandidates :
          CorrelationOf(i).strength \in SentinelStrengths
    /\ \E i \in 1..NumCandidates :
          /\ CorrelationOf(i).strength \notin SentinelStrengths
          /\ CorrelationOf(i).correlation = 0
          /\ market[all_related[i][1]].pearson # 0

\* C8: marketInfluence is "Unknown" only in a result without entries, where
\* totalAnalyzed, the average and the max are all 0; a result with an entry
\* never has marketInfluence "Unknown".
C8_UnknownOnlyWhenEmpty ==
    Returned =>
       /\ result.summary.total_analyzed = Len(Stocks)
       /\ result.summary.market_influence = "Unknown" =>
             /\ Stocks = <<>>
             /\ result.summary.total_analyzed = 0
             /\ result.summary.average_correlation = 0
             /\ result.summary.max_correlation = 0
       /\ Len(Stocks) >= 1 => result.summary.market_influence # "Unknown"

C8_Witness ==
    /\ Returned
    /\ NumCandidates > 0
    /\ result.summary.market_influence = "Unknown"

\* the sum of the absolute coefficients of the first k entries
RECURSIVE AbsSum(_)
AbsSum(k) ==
    IF k = 0 THEN 0
    ELSE AbsSum(k - 1) + (IF Stocks[k].correlation < 0
                          THEN 0 - Stocks[k].correlation
                          ELSE Stocks[k].correlation)

AnyNaN == \E k \in 1..Len(Stocks) : Stocks[k].correlation = NaN

\* C9: in a result with an entry, marketInfluence is High when the average
\* of the entries' absolute coefficients is >= 0.6, Moderate when it is
\* >= 0.4 and < 0.6, Low when it is < 0.4; the reported average is that
\* average rounded, and the reported max is the absolute coefficient of an
\* entry that no entry exceeds.
C9_InfluenceThresholds ==
    (OkReturned /\ Len(Stocks) >= 1) =>
       LET n == Len(Stocks)
           inf == result.summary.market_influence
           mx == result.summary.max_correlation
       IN  /\ ~AnyNaN =>
                /\ AbsSum(n) >= 600 * n => inf = "High"
                /\ (AbsSum(n) >= 400 * n /\ AbsSum(n) < 600 * n)
                      => inf = "Moderate"
                /\ AbsSum(n) < 400 * n => inf = "Low"
                /\ result.summary.average_correlation = RoundDiv(AbsSum(n), n)
           /\ AnyNaN => result.summary.average_correlation = NaN
           /\ inf \in {"High", "Moderate", "Low"}
           /\ \E k \in 1..n : FAbs(Stocks[k].correlation) = mx
           /\ \A k \in 1..n : ~FGt(FAbs(Stocks[k].correlation), mx)

C9_Witness ==
    /\ OkReturned
    /\ Len(Stocks) >= 1
    /\ ~AnyNaN
    /\ AbsSum(Len(Stocks)) = 600 * Len(Stocks)
    /\ result.summary.market_influence = "High"

\* C10: when the orchestration fails outside the per-task handling (here:
\* the ticker is no string, so the resolver raises), the result has no
\* entries, totalAnalyzed 0, marketInfluence "Error" and the diagnostic
\* message; only a failed call returns such a result.
C10_ErrorResult ==
    Returned =>
       /\ find_sector_peers_raises(primary_ticker) =>
             /\ "error" \in DOMAIN result
             /\ result.error = "AttributeError"
             /\ Stocks = <<>>
             /\ result.summary.total_analyzed = 0
             /\ result.summary.market_influence = "Error"
       /\ ("error" \in DOMAIN result \/ result.summary.market_influence = "Error")
             => find_sector_peers_raises(primary_ticker)

C10_Witness ==
    /\ Returned
    /\ find_sector_peers_raises(primary_ticker)
    /\ correlation_results = <<>>

---------------------------------------------------------------------------
(* Properties of calculate_correlation *)

Correlated == pc = "correlated"

FetchOf(k) == market[CorrelatePair[k]].fetch

PairJoined == market[CorrelatePair[2]].joined

PairPearson == market[CorrelatePair[2]].pearson

SentinelKeys == {"correlation", "strength", "p_value"}

ComputedKeys == {"correlation", "strength", "direction", "data_points"}

Computed == Correlated /\ DOMAIN result = ComputedKeys

\* C11: calculate_correlation never raises: for every behaviour of the
\* provider for either ticker it returns a record, and when the retrieval
\* of either series fails or gives a malformed frame the record has the
\* coefficient 0.0 and the strength "No Data" or "Error".
C11_CorrelateTotal ==
    /\ pc # "raised"
    /\ Correlated =>
          /\ DOMAIN result \in {SentinelKeys, ComputedKeys}
          /\ (\E k \in {1, 2} : FetchOf(k) \in {"raise", "malformed"}) =>
                /\ result.correlation = 0
                /\ result.strength \in {"No Data", "Error"}

C11_Witness ==
    /\ Correlated
    /\ FetchOf(1) = "ok"
    /\ FetchOf(2) = "malformed"
    /\ result.strength = "Error"

\* C12: when the series of either ticker is absent or empty the result is
\* the coefficient 0.0 with the strength "No Data", also when the other
\* series would give fewer than 30 joined points.
C12_NoDataFirst ==
    (Correlated /\ \E k \in {1, 2} : FetchOf(k) \in {"empty", "raise"}) =>
       /\ result.correlation = 0
       /\ result.strength = "No Data"

C12_Witness ==
    /\ Correlated
    /\ FetchOf(1) = "empty"
    /\ FetchOf(2) = "ok"
    /\ PairJoined < 30
    /\ result.strength = "No Data"

\* C13: with both series present, fewer than 30 joined observations (zero
\* included) give the coefficient 0.0 with the strength "Insufficient Data"
\* whatever the co-movement, and 30 or more give a computed coefficient.
C13_InsufficientBelow30 ==
    (Correlated /\ FetchOf(1) = "ok" /\ FetchOf(2) = "ok") =>
       /\ PairJoined < 30 =>
             /\ DOMAIN result = SentinelKeys
             /\ result.correlation = 0
             /\ result.strength = "Insufficient Data"
       /\ PairJoined >= 30 =>
             /\ DOMAIN result = ComputedKeys
             /\ result.correlation = Round3(PairPearson)

C13_Witness ==
    /\ Computed
    /\ PairJoined = 30
    /\ result.correlation = 800

\* C14: the strength of a computed result is the bucket of the magnitude of
\* the computed coefficient, closed on the high side: >= 0.8 Very Strong,
\* >= 0.6 Strong, >= 0.4 Moderate, >= 0.2 Weak, below Very Weak, for both
\* signs.
C14_StrengthBuckets ==
    (Computed /\ ~IsNaN(PairPearson)) =>
       LET m == IF PairPearson < 0 THEN 0 - PairPearson ELSE PairPearson
       IN  /\ m >= 8000 <=> result.strength = "Very Strong"
           /\ (m >= 6000 /\ m < 8000) <=> result.strength = "Strong"
           /\ (m >= 4000 /\ m < 6000) <=> result.strength = "Moderate"
           /\ (m >= 2000 /\ m < 4000) <=> result.strength = "Weak"
           /\ m < 2000 <=> result.strength = "Very Weak"

C14_Witness ==
    /\ Computed
    /\ PairPearson = 0 - 6000
    /\ result.strength = "Strong"

\* C15: in a computed result the strength is the bucket of the magnitude of
\* the reported coefficient and the direction is the sign class of the
\* reported coefficient, so that results reporting the same coefficient
\* carry the same strength and direction.
C15_FunctionOfReported ==
    Computed =>
       /\ result.strength = Strength(FMul(FAbs(result.correlation), 10))
       /\ result.direction = Direction(result.correlation)

\* C17: every computed result reports data_points >= 30.
C17_SampleSizeAtLeast30 ==
    Computed => result.data_points >= 30

---------------------------------------------------------------------------
(* Properties of direction and range in analyze_stock_impact *)

DoneFutures == {i \in 1..Len(futures) : futures[i].state = "done"}

PearsonOf(i) == market[all_related[i][1]].pearson

\* C16: the direction of a computed result is Positive when the computed
\* coefficient is > 0 and Negative otherwise, 0 being Negative; every entry
\* of relatedStocks is Positive or Negative, Positive exactly when its
\* reported coefficient is > 0, and none is Neutral.
C16_Direction ==
    /\ \A i \in DoneFutures :
          "direction" \in DOMAIN futures[i].value =>
             /\ (~IsNaN(PearsonOf(i)) /\ PearsonOf(i) > 0)
                   => futures[i].value.direction = "Positive"
             /\ (IsNaN(PearsonOf(i)) \/ PearsonOf(i) <= 0)
                   => futures[i].value.direction = "Negative"
    /\ Returned =>
          \A k \in 1..Len(Stocks) :
             /\ Stocks[k].direction \in {"Positive", "Negative"}
             /\ Stocks[k].direction = "Positive"
                   <=> (~IsNaN(Stocks[k].correlation)
                        /\ Stocks[k].correlation > 0)

C16_Witness ==
    /\ OkReturned
    /\ \E k \in 1..Len(Stocks) :
          Stocks[k].direction = "Positive" /\ Stocks[k].correlation > 0
    /\ \E i \in DoneFutures :
          /\ "direction" \in DOMAIN futures[i].value
          /\ PearsonOf(i) = 0
          /\ futures[i].value.direction = "Negative"

InUnitRange(x) == ~IsNaN(x) /\ x >= 0 - 1000 /\ x <= 1000

\* C18: every coefficient calculate_correlation returns, every coefficient
\* of relatedStocks and the average and max of the summary are numbers in
\* [-1, 1], never not-a-number.
C18_CoefficientInRange ==
    /\ \A i \in DoneFutures : InUnitRange(futures[i].value.correlation)
    /\ Returned =>
          /\ \A k \in 1..Len(Stocks) : InUnitRange(Stocks[k].correlation)
          /\ InUnitRange(result.summary.average_correlation)
          /\ InUnitRange(result.summary.max_correlation)

---------------------------------------------------------------------------
(* Properties of get_related_stocks *)

Resolved == pc \in {"submit", "shutdown"}

\* the tickers all_related lists under a category, in order
RECURSIVE TaggedFrom(_, _)
TaggedFrom(i, category) ==
    IF i > Len(all_related) THEN <<>>
    ELSE (IF all_related[i][2] = category THEN <<all_related[i][1]>>
          ELSE <<>>) \o TaggedFrom(i + 1, category)

Tagged(category) == TaggedFrom(1, category)

\* the tickers of the model that end with ".NS" or ".BO"
IndianTickers ==
    UNION {Range(indian_sectors[s]) : s \in DOMAIN indian_sectors}
    \cup {"TCS.BO", "ZOMATO.NS"}

\* the catalog of the market of the primary ticker
MarketCatalog ==
    IF primary_ticker \in IndianTickers THEN indian_sectors
    ELSE sector_mapping

\* the catalog list of the sector for the primary ticker
CatalogList ==
    IF sector \in DOMAIN MarketCatalog THEN MarketCatalog[sector] ELSE <<>>

RECURSIVE Without(_, _)
Without(list, x) ==
    IF list = <<>> THEN <<>>
    ELSE (IF list[1] = x THEN <<>> ELSE <<list[1]>>) \o Without(Tail(list), x)

\* L: the catalog list without the primary ticker, cut to 8 entries
PeerListL == SubSeq(Without(CatalogList, primary_ticker), 1,
                    Min(8, Len(Without(CatalogList, primary_ticker))))

FirstOf(list, n) == SubSeq(list, 1, Min(n, Len(list)))

\* C19: the primary ticker is in none of the three categories, also when
\* the sector's catalog lists it, so no candidate of the analysis is the
\* primary ticker.
C19_PrimaryExcluded ==
    Resolved =>
       \A i \in 1..Len(all_related) : all_related[i][1] # primary_ticker

C19_Witness ==
    /\ Resolved
    /\ primary_ticker \in Range(CatalogList)
    /\ Len(all_related) > 0

\* C20: with L the catalog list without the primary ticker cut to 8,
\* sector_peers is the first 5 of L, competitors the first 4, and
\* industry_peers the positions [2,6) of L when L has more than 2 entries
\* and all of L otherwise, in catalog order.
C20_CategorySlices ==
    Resolved =>
       /\ Tagged("sector_peers") = FirstOf(PeerListL, 5)
       /\ Tagged("competitors") = FirstOf(PeerListL, 4)
       /\ Tagged("industry_peers") =
             IF Len(PeerListL) > 2
             THEN SubSeq(PeerListL, 3, Min(6, Len(PeerListL)))
             ELSE PeerListL

C20_Witness ==
    /\ Resolved
    /\ Len(PeerListL) = 8
    /\ Len(Tagged("industry_peers")) = 4
    /\ Tagged("industry_peers")[1] = PeerListL[3]

---------------------------------------------------------------------------
(* Properties of the analysis as a whole *)

\* C21: for a sector the catalog of the ticker's market does not list, there
\* is no candidate, no task is submitted (the price provider is not called)
\* and the result is an empty list with total_analyzed 0 and the market
\* influence "Unknown"; nothing is raised.
C21_UnknownSector ==
    (pc # "start" /\ IsStr(primary_ticker)
        /\ sector \notin DOMAIN MarketCatalog) =>
       /\ pc # "raised"
       /\ all_related = <<>>
       /\ futures = <<>>
       /\ started = <<>>
       /\ Returned =>
             /\ "timestamp" \in DOMAIN result
             /\ Stocks = <<>>
             /\ result.summary.total_analyzed = 0
             /\ result.summary.market_influence = "Unknown"

C21_Witness ==
    /\ OkReturned
    /\ primary_ticker = "MARUTI.NS"
    /\ sector = "Utilities"
    /\ Stocks = <<>>

SameDirection == {"MSFT", "GOOGL", "META", "NVDA", "CRM"}

Scenario ==
    /\ primary_ticker = "AAPL"
    /\ sector = "Technology"
    /\ \A t \in SameDirection \cup {"ORCL", "ADBE"} :
          /\ t \in DOMAIN market
          /\ market[t].fetch = "ok"
          /\ market[t].joined >= 30
          /\ market[t].pearson = IF t \in SameDirection THEN 10000
                                 ELSE 0 - 10000

EntriesOf(t) == {k \in 1..Len(Stocks) : Stocks[k].ticker = t}

\* C22 as stated: in the AAPL scenario the five same-direction tickers are
\* in the result as Positive and both ORCL and ADBE as Negative, all Very
\* Strong, and the market influence is High.
C22_ScenarioAllSeven ==
    (Scenario /\ OkReturned) =>
       /\ \A t \in SameDirection :
             /\ EntriesOf(t) # {}
             /\ \A k \in EntriesOf(t) :
                   /\ Stocks[k].direction = "Positive"
                   /\ Stocks[k].strength = "Very Strong"
       /\ \A t \in {"ORCL", "ADBE"} :
             /\ EntriesOf(t) # {}
             /\ \A k \in EntriesOf(t) :
                   /\ Stocks[k].direction = "Negative"
                   /\ Stocks[k].strength = "Very Strong"
       /\ result.summary.market_influence = "High"

\* C22, amended: in the AAPL scenario the five same-direction tickers are in
\* the result as Positive and ORCL as Negative, all Very Strong, and the
\* market influence is High; ADBE and INTC, at positions 6 and 7 of the peer
\* list, are in no category and not in the result.
C22_ScenarioSix ==
    /\ (Scenario /\ pc # "start") =>
          {all_related[i][1] : i \in 1..Len(all_related)}
             = SameDirection \cup {"ORCL"}
    /\ (Scenario /\ OkReturned) =>
       /\ \A t \in SameDirection :
             /\ EntriesOf(t) # {}
             /\ \A k \in EntriesOf(t) :
                   /\ Stocks[k].direction = "Positive"
                   /\ Stocks[k].strength = "Very Strong"
                   /\ Stocks[k].correlation = 1000
       /\ EntriesOf("ORCL") # {}
       /\ \A k \in EntriesOf("ORCL") :
             /\ Stocks[k].direction = "Negative"
             /\ Stocks[k].strength = "Very Strong"
             /\ Stocks[k].correlation = 0 - 1000
       /\ EntriesOf("ADBE") = {}
       /\ EntriesOf("INTC") = {}
       /\ result.summary.market_influence = "High"
       /\ result.summary.average_correlation = 1000

C22_Witness ==
    /\ Scenario
    /\ OkReturned
    /\ EntriesOf("ORCL") # {}
    /\ market["INTC"].fetch = "ok"

---------------------------------------------------------------------------
(* Properties of get_impact_network_data *)

Projected == pc = "projected"

BandColor(c) ==
    LET a == IF c < 0 THEN 0 - c ELSE c
    IN  IF a >= 600 THEN "#e74c3c"
        ELSE IF a >= 400 THEN "#f39c12"
        ELSE "#3498db"

\* C23: n entries give n nodes and n edges in the order of the entries, the
\* i-th node and edge naming the i-th ticker, every edge from "primary"; the
\* colour of both is the strong one for |coefficient| >= 0.6, the moderate
\* one for >= 0.4 and the weak one otherwise; the node size is
\* |coefficient|*50+10 and the edge width |coefficient|*5; the empty list
\* gives no node and no edge.
C23_Projection ==
    Projected =>
       /\ DOMAIN presented = {"nodes", "edges"}
       /\ Len(presented.nodes) = Len(correlation_results)
       /\ Len(presented.edges) = Len(correlation_results)
       /\ \A i \in 1..Len(correlation_results) :
             LET c == correlation_results[i].correlation
                 node == presented.nodes[i]
                 edge == presented.edges[i]
             IN  /\ node.id = correlation_results[i].ticker
                 /\ edge.to = correlation_results[i].ticker
                 /\ edge.from = "primary"
                 /\ node.color = edge.color
                 /\ IF c = NaN
                    THEN node.color = "#3498db"
                    ELSE /\ node.color = BandColor(c)
                         /\ node.size =
                               (IF c < 0 THEN 0 - c ELSE c) * 50 + 10000
                         /\ edge.width = (IF c < 0 THEN 0 - c ELSE c) * 5

C23_Witness ==
    /\ Projected
    /\ Len(correlation_results) = 2
    /\ correlation_results[1].correlation = 0 - 600
    /\ presented.nodes[1].color = "#e74c3c"
    /\ correlation_results[2].correlation = 399
    /\ presented.edges[2].to = correlation_results[2].ticker

---------------------------------------------------------------------------
(* Properties of the worker pool at the end of the analysis *)

\* the tasks that have not completed
Unfinished == {i \in 1..Len(futures) : futures[i].state # "done"}

\* C24: a task dropped for its timeout does not hold up the analysis: once
\* every candidate was collected or dropped, the call does not wait for
\* the dropped tasks that are still running.
C24_DroppedTaskDoesNotBlock ==
    ~(/\ pc = "shutdown"
      /\ Unfinished # {}
      /\ Unfinished \subseteq timed_out)

---------------------------------------------------------------------------
(* Properties of the candidates *)

Candidates == {all_related[i][1] : i \in 1..Len(all_related)}

OtherCatalog ==
    IF primary_ticker \in IndianTickers THEN sector_mapping
    ELSE indian_sectors

\* C25: for a primary ticker ending in .NS or .BO every candidate is in the
\* list of the sector in the Indian catalog, for any other ticker in the
\* list of the sector in the domestic catalog, and no candidate is in the
\* other catalog.
C25_MarketBySuffix ==
    Resolved =>
       /\ Candidates \subseteq Range(CatalogList)
       /\ \A s \in DOMAIN OtherCatalog :
             Candidates \cap Range(OtherCatalog[s]) = {}

C25_Witness ==
    /\ Resolved
    /\ primary_ticker = "TCS.BO"
    /\ sector = "Technology"
    /\ "TCS.NS" \in Candidates

\* C28: the candidates are the first 6 entries (at most) of the peer list
\* cut to 8: the peers at positions 6 and 7 are in no category, and there
\* are never more than 6 distinct candidates.
C28_FirstSixOnly ==
    Resolved =>
       /\ Candidates = Range(FirstOf(PeerListL, 6))
       /\ Cardinality(Candidates) <= 6
       /\ \A k \in 7..Len(PeerListL) : PeerListL[k] \notin Candidates

C28_Witness ==
    /\ Resolved
    /\ Len(PeerListL) = 8
    /\ Cardinality(Candidates) = 6

---------------------------------------------------------------------------
(* Properties of the drop for timing *)

\* C27 as stated: a candidate whose task runs for less than 10 time units
\* and gives a nonzero coefficient is in relatedStocks, whatever the other
\* tasks do and however long it was queued.
C27_FastTaskKept ==
    OkReturned =>
       \A i \in 1..NumCandidates :
          (latency[i] < Timeout /\ Kept(CorrelationOf(i))) => HasEntry(i)

\* C27, amended: a task that runs for less than 10 time units is dropped
\* for timing only when it was still queued when the wait for its result
\* began; when it had started by then and its coefficient is nonzero, the
\* candidate is in relatedStocks.
C27_FastTaskKeptIfStarted ==
    /\ \A i \in timed_out :
          latency[i] < Timeout =>
             \/ futures[i].state = "queued"
             \/ started[i] > wait_began[i]
    /\ OkReturned =>
          \A i \in 1..NumCandidates :
             (/\ latency[i] < Timeout
              /\ started[i] <= wait_began[i]
              /\ Kept(CorrelationOf(i))) => HasEntry(i)

C27_Witness ==
    /\ OkReturned
    /\ \E i \in timed_out :
          /\ latency[i] < Timeout
          /\ started[i] > wait_began[i]
          /\ Kept(CorrelationOf(i))
          /\ ~HasEntry(i)
    /\ \E i \in 1..NumCandidates :
          /\ latency[i] < Timeout
          /\ started[i] > 0
          /\ HasEntry(i)

---------------------------------------------------------------------------
(* The summary against the values it reports *)

\* C29: in a result with an entry (and no NaN coefficient), marketInfluence
\* is High exactly when the reported averageCorrelation is >= 0.6, Moderate
\* exactly when it is >= 0.4 and < 0.6, Low when it is < 0.4; the reported
\* maxCorrelation is the absolute coefficient of the first entry, and the
\* reported average is <= the reported max.
C29_SummaryConsistent ==
    (OkReturned /\ Len(Stocks) >= 1 /\ ~AnyNaN) =>
       LET avg == result.summary.average_correlation
           inf == result.summary.market_influence
           mx  == result.summary.max_correlation
       IN  /\ inf = "High" <=> avg >= 600
           /\ inf = "Moderate" <=> (avg >= 400 /\ avg < 600)
           /\ avg < 400 => inf = "Low"
           /\ mx = FAbs(Stocks[1].correlation)
           /\ avg <= mx

---------------------------------------------------------------------------
(* The formatting helper against the engine's classification *)

Formatted == pc = "formatted"

\* C30 as stated: for every coefficient the helper gives the strength and
\* the direction that calculate_correlation gives, the coefficient 0
\* included.
C30_SameClassification ==
    Formatted =>
       /\ presented.strength = result.strength
       /\ presented.direction = result.direction

\* C30, amended: the helper gives the engine's strength for every
\* coefficient, the boundaries 0.2, 0.4, 0.6 and 0.8 included, and the
\* engine's direction for every coefficient other than 0; for the
\* coefficient 0 (and for NaN) the helper gives "Neutral" and the engine
\* gives "Negative".
C30_SameExceptAtZero ==
    Formatted =>
       /\ presented.strength = result.strength
       /\ presented.strength = Strength(FAbs(PairPearson))
       /\ (~IsNaN(PairPearson) /\ PairPearson # 0) =>
             presented.direction = result.direction
       /\ (IsNaN(PairPearson) \/ PairPearson = 0) =>
             /\ presented.direction = "Neutral"
             /\ result.direction = "Negative"

C30_Witness ==
    /\ Formatted
    /\ PairPearson = 0
    /\ presented.strength = "Very Weak"
    /\ result.strength = "Very Weak"
    /\ presented.direction = "Neutral"
    /\ result.direction = "Negative"

---------------------------------------------------------------------------
(* What the calls leave alone *)

\* the step is a step of the i-th task: its future changes state
TaskStepOf(i) ==
    /\ Len(futures') = Len(futures)
    /\ futures'[i] # futures[i]

\* C26: no step of a resolve, an analysis or a projection changes either
\* sector catalog; the projection leaves the list it was passed as it was;
\* and a step of a task writes only that task's own future: not another
\* task's future, not the candidate list, not the collected entries, not
\* the result.
C26_Frame ==
    [][/\ engine = Catalogs
       /\ engine' = Catalogs
       /\ pc' = "projected" => result'.related_stocks = result.related_stocks
       /\ \A i \in 1..Len(futures) :
             TaskStepOf(i) =>
                /\ \A j \in (1..Len(futures)) \ {i} :
                      futures'[j] = futures[j] /\ remaining'[j] = remaining[j]
                /\ UNCHANGED <<engine, market, all_related,
                               correlation_results, result, presented>>]_vars

C26_Witness ==
    /\ pc = "projected"
    /\ engine = Catalogs
    /\ sector \in DOMAIN engine.sector_mapping
    /\ primary_ticker \in Range(engine.sector_mapping[sector])
    /\ Len(result.related_stocks) >= 2
    /\ Len(presented.nodes) = Len(result.related_stocks)
    /\ timed_out # {}
    /\ out_of_order

===========================================================================
